---- MODULE Spec2Model ----
(***************************************************************************)
(* Model of the orpheus-engine Python backend:                             *)
(*   - the transport engine  (orpheus_backend/audio/engine.py)             *)
(*   - the websocket manager (orpheus_backend/websocket/manager.py)        *)
(* Both run as asyncio tasks on one event loop: a step of the model is the *)
(* code a task runs between two suspension points (an await that really    *)
(* suspends: a socket send, asyncio.sleep).                                *)
(***************************************************************************)
EXTENDS Integers, Sequences, FiniteSets, TLC

\* Python's None, where a record is expected
None == [none |-> TRUE]

(***************************************************************************)
(* Bounds of the model.                                                    *)
(***************************************************************************)
MaxLoops == 2        \* tick-loop tasks alive at the same time
MaxBar == 1          \* the tick loop is followed until the playhead reaches this bar
MaxUnderruns == 1    \* buffer_underruns is followed up to this value
NumPosIds == 2       \* TimelinePosition objects alive at the same time
MaxClients == 2      \* distinct client ids
MaxSockets == 2      \* websockets accepted by connect() in one run
MaxEvents == 1       \* broadcast / broadcast_to_room calls in one run
MaxAppends == 1002   \* broadcast calls in one run of the history ring (beyond max_history)
MaxStored == 2       \* broadcast calls in one run with history requests
MaxPassEvents == 2   \* broadcast calls in one run of the room-pass runs
MaxCycles == 45      \* tick cycles counted in one run at tempo 120 (one beat is 44 cycles)
MaxClock == 2        \* clock values followed after the import of the module
MaxStamped == 2      \* messages built by the broadcast helpers in one run

(***************************************************************************)
(* Program constants.                                                      *)
(***************************************************************************)
TicksPerBeat == 480
buffer_size == 512
sample_rate == 44100

\* Project.tempo values set_project is called with: at 2584 bpm one buffer
\* of 512 samples is 240 ticks, so that carries into beat and bar happen
\* within MaxBar.
Tempos == {2584}
\* Project.time_signature[0] values set_project is called with (the field is
\* an unvalidated tuple: 0 is accepted).
BeatsPerBarValues == {2, 0}

LoopIds == 1..MaxLoops
PosIds == 1..NumPosIds

\* WebSocketManager.max_history
max_history == 1000

Clients == 1..MaxClients
SocketIds == 1..MaxSockets
\* room names (two of the rooms the broadcast_* helpers publish to)
Rooms == {"transport", "tracks"}

VARIABLES
    \* ---- AudioEngine ----
    is_initialized,     \* self.is_initialized
    is_playing,         \* self.is_playing
    is_recording,       \* self.is_recording
    playhead_position,  \* self.playhead_position: a reference into positions
    positions,          \* the TimelinePosition objects on the heap
    current_project,    \* self.current_project: None or [tempo, time_signature]
    cpu_usage,          \* self.cpu_usage (percent)
    buffer_underruns,   \* self.buffer_underruns
    loop_tasks,         \* the tasks created by play(): where each one is
    last_status,        \* the EngineStatus get_status() returned last, or None
    cycles,             \* completed tick cycles (counted in the runs that time them)
    \* ---- WebSocketManager ----
    connections,        \* self.connections: the dict's entries, in insertion order
    room_connections,   \* self.room_connections: room -> set of client ids
    message_history,    \* self.message_history
    \* ---- the sockets and the tasks using the manager ----
    sockets,            \* state of each WebSocket object
    delivered,          \* per socket: the broadcast events written to it, in order
    next_event,         \* number of the next broadcast message
    bc,                 \* the task inside broadcast() / broadcast_to_room()
    st,                 \* the task inside a direct send_to_client()
    recent_messages,    \* the messages the last get_history request was answered with
    join_result,        \* what the last join_room() call returned, or None
    seek_response,      \* how the last POST /transport/seek was answered, or "none"
    play_result,        \* how the last play() on an engine not initialized ended
    handlers,           \* per socket: the endpoint coroutine serving it
    clock,              \* datetime.now()
    stamps              \* per message built by a broadcast helper: its timestamp
                        \* and the clock when it was built

engineVars == <<is_initialized, is_playing, is_recording, playhead_position,
                positions, current_project, cpu_usage, buffer_underruns,
                loop_tasks, last_status, cycles>>

\* what calls handed back to their callers
callVars == <<recent_messages, join_result, seek_response, play_result,
              handlers, clock, stamps>>

\* the ones no operation of the manager sets
serverVars == <<seek_response, play_result, handlers, clock, stamps>>

managerVars == <<connections, room_connections, message_history, sockets,
                 delivered, next_event, bc, st, recent_messages, join_result,
                 seek_response, play_result, handlers, clock, stamps>>

vars == <<is_initialized, is_playing, is_recording, playhead_position,
          positions, current_project, cpu_usage, buffer_underruns,
          loop_tasks, last_status, cycles,
          connections, room_connections, message_history, sockets,
          delivered, next_event, bc, st, recent_messages, join_result,
          seek_response, play_result, handlers, clock, stamps>>

(***************************************************************************)
(* TimelinePosition (models.py)                                            *)
(***************************************************************************)
TimelinePosition == [bar |-> 0, beat |-> 0, tick |-> 0]

\* int(x) for the rational n/d, d > 0: truncation towards zero
IntTrunc(n, d) == IF n >= 0 THEN n \div d ELSE -((-n) \div d)

\* while self.playhead_position.tick >= 480: tick -= 480; beat += 1
RECURSIVE CarryTicks(_)
CarryTicks(p) ==
    IF p.tick >= TicksPerBeat
    THEN CarryTicks([p EXCEPT !.tick = @ - TicksPerBeat, !.beat = @ + 1])
    ELSE p

\* while self.playhead_position.beat >= beats_per_bar: beat -= bpb; bar += 1
\* (only evaluated where the loop terminates, see BeatCarryDiverges)
RECURSIVE CarryBeats(_, _)
CarryBeats(p, beats_per_bar) ==
    IF p.beat >= beats_per_bar
    THEN CarryBeats([p EXCEPT !.beat = @ - beats_per_bar, !.bar = @ + 1],
                    beats_per_bar)
    ELSE p

\* the beat loop never ends: subtracting a non-positive beats_per_bar never
\* brings beat below it
BeatCarryDiverges(p, beats_per_bar) ==
    beats_per_bar <= 0 /\ p.beat >= beats_per_bar

\* ticks_to_advance = int(duration_seconds * ticks_per_second), for
\* duration_seconds = buffer_size / sample_rate and
\* ticks_per_second = (tempo / 60.0) * 480
TicksToAdvance_rounded_up(tempo) ==
    IntTrunc(buffer_size * tempo * TicksPerBeat + sample_rate * 60 - 1,
             sample_rate * 60)

TicksToAdvance(tempo) ==
    IntTrunc(buffer_size * tempo * TicksPerBeat, sample_rate * 60)

\* AudioEngine._advance_playhead on the position value p
\* TimelinePosition.to_samples: the float product truncated by int()
to_samples(p, rate, tempo, time_signature) ==
    LET total_ticks == p.bar * time_signature * TicksPerBeat
                       + p.beat * TicksPerBeat + p.tick
    IN  IntTrunc(total_ticks * 60 * rate, tempo * TicksPerBeat)

advance_playhead(p, project) ==
    IF project = None
    THEN p
    ELSE CarryBeats(CarryTicks([p EXCEPT !.tick = @ + TicksToAdvance(project.tempo)]),
                    project.time_signature)

(***************************************************************************)
(* The heap of TimelinePosition objects.  get_status() stores a reference  *)
(* to self.playhead_position in the EngineStatus it returns (pydantic 2    *)
(* keeps a model instance passed as a field value, it does not copy it).   *)
(***************************************************************************)
StatusRefs(status) == IF status = None THEN {} ELSE {status.playhead_position}

\* objects nothing refers to any more are returned to their initial value
Collect(heap, refs) ==
    [i \in PosIds |-> IF i \in refs THEN heap[i] ELSE TimelinePosition]

\* the object a TimelinePosition() call creates: one nothing refers to
NewPosition(refs) == CHOOSE i \in PosIds \ refs : \A j \in PosIds \ refs : i <= j

Playhead == positions[playhead_position]

(***************************************************************************)
(* Scheduling: a tick loop that does not sleep goes on to its next cycle   *)
(* without giving the event loop a chance to run any other task.           *)
(***************************************************************************)
NoTaskRunning == \A i \in LoopIds : loop_tasks[i] \notin {"running", "hung"}

LiveLoops == {i \in LoopIds : loop_tasks[i] # "none"}

\* processing_time of one cycle, in percent of buffer_duration: the cycles
\* followed here stay within their budget
ProcessingPercents == {50}

(***************************************************************************)
(* AudioEngine operations                                                  *)
(***************************************************************************)
EngineInit ==
    /\ is_initialized = FALSE
    /\ is_playing = FALSE
    /\ is_recording = FALSE
    /\ playhead_position = 1
    /\ positions = [i \in PosIds |-> TimelinePosition]
    /\ current_project = None
    /\ cpu_usage = 0
    /\ buffer_underruns = 0
    /\ loop_tasks = [i \in LoopIds |-> "none"]
    /\ last_status = None
    /\ cycles = 0

initialize ==
    /\ UNCHANGED <<managerVars, cycles>>
    /\ NoTaskRunning
    /\ is_initialized' = TRUE
    /\ UNCHANGED <<is_playing, is_recording, playhead_position, positions,
                   current_project, cpu_usage, buffer_underruns, loop_tasks,
                   last_status>>

\* play(): raises when not initialized (play_not_initialized); otherwise sets is_playing
\* and creates a new task running _audio_processing_loop
play ==
    /\ UNCHANGED <<managerVars, cycles>>
    /\ NoTaskRunning
    /\ is_initialized
    /\ \E i \in LoopIds :
        /\ loop_tasks[i] = "none"
        /\ \A j \in LoopIds : loop_tasks[j] = "none" => i <= j
        /\ loop_tasks' = [loop_tasks EXCEPT ![i] = "created"]
    /\ is_playing' = TRUE
    /\ UNCHANGED <<is_initialized, is_recording, playhead_position, positions,
                   current_project, cpu_usage, buffer_underruns, last_status>>

\* a play() that does not look whether the engine is initialized
play_not_initialized_starts ==
    /\ NoTaskRunning
    /\ ~is_initialized
    /\ is_playing' = TRUE
    /\ UNCHANGED <<is_initialized, is_recording, playhead_position, positions,
                   current_project, cpu_usage, buffer_underruns, loop_tasks,
                   last_status, cycles>>
    /\ UNCHANGED <<connections, room_connections, message_history, sockets,
                   delivered, next_event, bc, st, recent_messages, join_result,
                   seek_response, play_result, handlers, clock, stamps>>

\* play() on an engine that is not initialized: raise RuntimeError("Audio
\* engine not initialized") before anything is assigned
play_not_initialized ==
    /\ NoTaskRunning
    /\ ~is_initialized
    /\ play_result' = "RuntimeError"
    /\ UNCHANGED engineVars
    /\ UNCHANGED <<connections, room_connections, message_history, sockets,
                   delivered, next_event, bc, st, recent_messages, join_result,
                   seek_response, handlers, clock, stamps>>

\* a pause() that rewinds like stop()
pause_rewinds ==
    /\ UNCHANGED <<managerVars, cycles>>
    /\ NoTaskRunning
    /\ is_playing' = FALSE
    /\ positions' = [positions EXCEPT ![playhead_position] = TimelinePosition]
    /\ UNCHANGED <<is_initialized, is_recording, playhead_position,
                   current_project, cpu_usage, buffer_underruns, loop_tasks,
                   last_status>>

pause ==
    /\ UNCHANGED <<managerVars, cycles>>
    /\ NoTaskRunning
    /\ is_playing' = FALSE
    /\ UNCHANGED <<is_initialized, is_recording, playhead_position, positions,
                   current_project, cpu_usage, buffer_underruns, loop_tasks,
                   last_status>>

\* a stop() that forgets to reset the position
StopEffect_keeps_position ==
    /\ is_playing' = FALSE
    /\ UNCHANGED <<playhead_position, positions>>

\* the assignments of stop(): is_playing = False, playhead_position = TimelinePosition()
StopEffect ==
    /\ is_playing' = FALSE
    /\ LET new == NewPosition(StatusRefs(last_status))
       IN /\ playhead_position' = new
          /\ positions' = Collect([positions EXCEPT ![new] = TimelinePosition],
                                  {new} \cup StatusRefs(last_status))

stop ==
    /\ UNCHANGED <<managerVars, cycles>>
    /\ NoTaskRunning
    /\ StopEffect
    /\ UNCHANGED <<is_initialized, is_recording, current_project, cpu_usage,
                   buffer_underruns, loop_tasks, last_status>>

record_ends_playback ==
    /\ UNCHANGED <<managerVars, cycles>>
    /\ NoTaskRunning
    /\ is_recording' = ~is_recording
    /\ is_playing' = FALSE
    /\ UNCHANGED <<is_initialized, playhead_position, positions,
                   current_project, cpu_usage, buffer_underruns, loop_tasks,
                   last_status>>

record ==
    /\ UNCHANGED <<managerVars, cycles>>
    /\ NoTaskRunning
    /\ is_recording' = ~is_recording
    /\ UNCHANGED <<is_initialized, is_playing, playhead_position, positions,
                   current_project, cpu_usage, buffer_underruns, loop_tasks,
                   last_status>>

\* shutdown(): if self.is_playing: await self.stop(); is_initialized = False
shutdown ==
    /\ UNCHANGED <<managerVars, cycles>>
    /\ NoTaskRunning
    /\ IF is_playing
       THEN StopEffect
       ELSE UNCHANGED <<is_playing, playhead_position, positions>>
    /\ is_initialized' = FALSE
    /\ UNCHANGED <<is_recording, current_project, cpu_usage, buffer_underruns,
                   loop_tasks, last_status>>

set_project(project) ==
    /\ UNCHANGED <<managerVars, cycles>>
    /\ NoTaskRunning
    /\ current_project' = project
    /\ UNCHANGED <<is_initialized, is_playing, is_recording, playhead_position,
                   positions, cpu_usage, buffer_underruns, loop_tasks,
                   last_status>>

get_status ==
    /\ UNCHANGED <<managerVars, cycles>>
    /\ NoTaskRunning
    /\ last_status' = [is_playing |-> is_playing,
                       is_recording |-> is_recording,
                       playhead_position |-> playhead_position,
                       cpu_usage |-> cpu_usage,
                       memory_usage |-> 0,
                       buffer_underruns |-> buffer_underruns,
                       active_tracks |-> IF current_project = None THEN 0
                                         ELSE Len(current_project.tracks)]
    /\ positions' = Collect(positions, {playhead_position})
    /\ UNCHANGED <<is_initialized, is_playing, is_recording, playhead_position,
                   current_project, cpu_usage, buffer_underruns, loop_tasks>>

(***************************************************************************)
(* AudioEngine._audio_processing_loop, task i: what it runs from the point *)
(* it is resumed (created, or woken from asyncio.sleep, or going straight  *)
(* on after an underrun) to its next suspension or its end.                *)
(***************************************************************************)
\* a tick loop that never looks at is_playing again once it has slept
tick_cycle_deaf(i, pt) ==
    /\ \/ loop_tasks[i] \in {"created", "sleeping"} /\ NoTaskRunning
       \/ loop_tasks[i] = "running"
    /\ IF ~is_playing
       THEN /\ loop_tasks' = [loop_tasks EXCEPT ![i] = "sleeping"]
            /\ UNCHANGED <<positions, cpu_usage, buffer_underruns>>
       ELSE IF current_project # None
               /\ BeatCarryDiverges(
                      CarryTicks([Playhead EXCEPT
                          !.tick = @ + TicksToAdvance(current_project.tempo)]),
                      current_project.time_signature)
       THEN \* the beat carry of _advance_playhead never ends: the task spins
            \* in it and never returns to the event loop
            /\ positions' = [positions EXCEPT ![playhead_position] =
                   CarryTicks([@ EXCEPT
                       !.tick = @ + TicksToAdvance(current_project.tempo)])]
            /\ loop_tasks' = [loop_tasks EXCEPT ![i] = "hung"]
            /\ UNCHANGED <<cpu_usage, buffer_underruns>>
       ELSE \* one cycle: process the buffer, advance the playhead in place,
            \* update the metrics, then sleep or count an underrun and go on
            /\ Playhead.bar < MaxBar
            /\ positions' = [positions EXCEPT
                   ![playhead_position] = advance_playhead(@, current_project)]
            /\ cpu_usage' = pt
            /\ IF 100 - pt > 0
               THEN /\ loop_tasks' = [loop_tasks EXCEPT ![i] = "sleeping"]
                    /\ UNCHANGED buffer_underruns
               ELSE /\ buffer_underruns < MaxUnderruns
                    /\ buffer_underruns' = buffer_underruns + 1
                    /\ loop_tasks' = [loop_tasks EXCEPT ![i] = "running"]
    /\ UNCHANGED <<is_initialized, is_playing, is_recording, playhead_position,
                   current_project, last_status>>

tick_cycle(i, pt) ==
    /\ \/ loop_tasks[i] \in {"created", "sleeping"} /\ NoTaskRunning
       \/ loop_tasks[i] = "running"
    /\ IF ~is_playing
       THEN \* while self.is_playing: false, the task ends
            /\ loop_tasks' = [loop_tasks EXCEPT ![i] = "none"]
            /\ UNCHANGED <<positions, cpu_usage, buffer_underruns>>
       ELSE IF current_project # None
               /\ BeatCarryDiverges(
                      CarryTicks([Playhead EXCEPT
                          !.tick = @ + TicksToAdvance(current_project.tempo)]),
                      current_project.time_signature)
       THEN \* the beat carry of _advance_playhead never ends: the task spins
            \* in it and never returns to the event loop
            /\ positions' = [positions EXCEPT ![playhead_position] =
                   CarryTicks([@ EXCEPT
                       !.tick = @ + TicksToAdvance(current_project.tempo)])]
            /\ loop_tasks' = [loop_tasks EXCEPT ![i] = "hung"]
            /\ UNCHANGED <<cpu_usage, buffer_underruns>>
       ELSE \* one cycle: process the buffer, advance the playhead in place,
            \* update the metrics, then sleep or count an underrun and go on
            /\ Playhead.bar < MaxBar
            /\ positions' = [positions EXCEPT
                   ![playhead_position] = advance_playhead(@, current_project)]
            /\ cpu_usage' = pt
            /\ IF 100 - pt > 0
               THEN /\ loop_tasks' = [loop_tasks EXCEPT ![i] = "sleeping"]
                    /\ UNCHANGED buffer_underruns
               ELSE /\ buffer_underruns < MaxUnderruns
                    /\ buffer_underruns' = buffer_underruns + 1
                    /\ loop_tasks' = [loop_tasks EXCEPT ![i] = "running"]
    /\ UNCHANGED <<is_initialized, is_playing, is_recording, playhead_position,
                   current_project, last_status>>

audio_processing_loop(i, pt) ==
    /\ UNCHANGED <<managerVars, cycles>>
    /\ tick_cycle(i, pt)

\* the same, counting the cycles it completes
audio_processing_loop_counted(i, pt) ==
    /\ UNCHANGED managerVars
    /\ cycles < MaxCycles
    /\ tick_cycle(i, pt)
    /\ cycles' = IF is_playing /\ loop_tasks'[i] # "hung" THEN cycles + 1 ELSE cycles

(***************************************************************************)
(* POST /transport/seek (api/audio.py): the handler awaits                 *)
(* audio_engine.seek(position).  AudioEngine defines no seek, so the       *)
(* attribute lookup raises AttributeError for every position; the          *)
(* handler's `except Exception` answers HTTP 500.  Nothing is validated    *)
(* and nothing of the engine is touched before that.                       *)
(***************************************************************************)
SeekPositions == {-5, 0, 5}

seek(position) ==
    /\ seek_response' = "internal_server_error"
    /\ UNCHANGED <<engineVars, connections, room_connections, message_history,
                   sockets, delivered, next_event, bc, st, recent_messages,
                   join_result, play_result, handlers, clock, stamps>>

Projects ==
    [tempo : Tempos, time_signature : BeatsPerBarValues, tracks : {<<>>}]

EngineNext ==
    \/ initialize
    \/ shutdown
    \/ play
    \/ pause
    \/ stop
    \/ record
    \/ \E project \in Projects : set_project(project)
    \/ get_status
    \/ \E i \in LoopIds, pt \in ProcessingPercents : audio_processing_loop(i, pt)


(***************************************************************************)
(* WebSocketManager (websocket/manager.py)                                 *)
(*                                                                         *)
(* self.connections is a dict: its entries keep the order of insertion, a  *)
(* deleted entry leaves a hole, a key assigned again keeps its entry.  An  *)
(* iterator over a dict or a set remembers the size of the collection and  *)
(* raises RuntimeError at its next step when the size has changed.         *)
(***************************************************************************)
\* the hole a deleted dict entry leaves
Deleted == [client_id |-> 0, websocket |-> 0, subscriptions |-> {}]

LiveIndexes(conns) == {k \in 1..Len(conns) : conns[k].client_id # 0}

\* the keys of the dict
Keys(conns) == {conns[k].client_id : k \in LiveIndexes(conns)}

IndexOf(conns, c) == CHOOSE k \in LiveIndexes(conns) : conns[k].client_id = c

\* len(self.connections)
dict_len(conns) == Cardinality(LiveIndexes(conns))

\* self.connections[client_id] = connection_info
dict_set(conns, c, info) ==
    IF c \in Keys(conns)
    THEN [conns EXCEPT ![IndexOf(conns, c)] = info]
    ELSE Append(conns, info)

\* the manager's two collections as one value
Manager == [connections |-> connections, room_connections |-> room_connections]

\* a disconnect() that leaves the client in the rooms it joined
disconnect_keeps_rooms(m, client_id) ==
    IF client_id \in Keys(m.connections)
    THEN [m EXCEPT !.connections =
              [@ EXCEPT ![IndexOf(m.connections, client_id)] = Deleted]]
    ELSE m

\* WebSocketManager.disconnect
disconnect(m, client_id) ==
    IF client_id \in Keys(m.connections)
    THEN [connections |->
              [m.connections EXCEPT ![IndexOf(m.connections, client_id)] = Deleted],
          room_connections |->
              [r \in DOMAIN m.room_connections |-> m.room_connections[r] \ {client_id}]]
    ELSE m

\* for client_id in disconnected_clients: self.disconnect(client_id)
RECURSIVE disconnect_all(_, _)
disconnect_all(m, clients) ==
    IF clients = <<>>
    THEN m
    ELSE disconnect_all(disconnect(m, Head(clients)), Tail(clients))

\* an _add_to_history that never evicts
add_to_history_unbounded(history, message) == Append(history, message)

\* WebSocketManager._add_to_history
add_to_history(history, message) ==
    LET h == Append(history, message)
    IN IF Len(h) > max_history
       THEN SubSeq(h, Len(h) - max_history + 1, Len(h))
       ELSE h

\* the orders in which a set of client ids can lie in its hash table
Orders == {o \in [1..MaxClients -> Clients] : \A c \in Clients : \E k \in 1..MaxClients : o[k] = c}

\* the exclude_clients arguments followed: nobody, or one client
Excludes == {{}} \cup {{c} : c \in Clients}

NoBroadcast ==
    [pc |-> "idle", kind |-> "all", room |-> "", exclude |-> {}, event |-> 0,
     used |-> 0, remaining |-> 0, pos |-> 0, order |-> <<>>,
     vacated |-> {}, stale |-> FALSE,
     client_id |-> 0, websocket |-> 0,
     sent_count |-> 0, disconnected_clients |-> <<>>, result |-> 0,
     interfered |-> FALSE]

\* no endpoint coroutine has been started for the socket
NoHandler == [pc |-> "none", endpoint |-> "", client_id |-> 0]

\* no direct send in flight; result is what the last one returned
NoSend == [pc |-> "idle", client_id |-> 0, websocket |-> 0, result |-> FALSE]

\* the broadcast task is running (between two suspensions): no other task runs
BroadcastRunning == bc.pc = "iter"

\* what a change made by another task means to a broadcast suspended in a
\* send: gone are the rooms whose set object was dropped from
\* room_connections, rooms is room_connections after the change.  An id
\* discarded from the set being iterated leaves a vacated (dummy) slot in
\* its hash table.
after_mutation(b, gone, rooms) ==
    IF b.pc = "sending"
    THEN [b EXCEPT !.interfered = TRUE,
                   !.stale = @ \/ (b.kind = "room" /\ b.room \in gone),
                   !.vacated =
                       IF b.kind = "room" /\ ~b.stale
                                          /\ b.room \in DOMAIN room_connections
                       THEN @ \cup (room_connections[b.room] \
                                      (IF b.room \in DOMAIN rooms
                                       THEN rooms[b.room] ELSE {}))
                       ELSE @]
    ELSE b

\* order with the slots of c and d exchanged
Swap(order, c, d) ==
    [k \in DOMAIN order |-> IF order[k] = c THEN d
                            ELSE IF order[k] = d THEN c ELSE order[k]]

\* set.add(c) on the set a suspended broadcast_to_room iterates: the key
\* goes to the slot its probe sequence ends at, which is the slot it had or
\* would have had, or a slot vacated by another id (CPython reuses the last
\* vacated slot on the probe path; which ids share a path depends on their
\* hashes)
Reslotted(b, c, room) ==
    IF /\ b.pc = "sending" /\ b.kind = "room" /\ b.room = room /\ ~b.stale
       /\ room \in DOMAIN room_connections
       /\ c \notin room_connections[room]
    THEN {[b EXCEPT !.vacated = @ \ {c}]}
         \cup {[b EXCEPT !.order = Swap(@, c, d),
                         !.vacated = (@ \ {c, d}) \cup
                                     (IF c \in b.vacated THEN {d} ELSE {})] :
                  d \in b.vacated \ {c}}
    ELSE {b}

ManagerInit ==
    /\ connections = <<>>
    /\ room_connections = [r \in {} |-> {}]
    /\ message_history = <<>>
    /\ sockets = [w \in SocketIds |-> "new"]
    /\ delivered = [w \in SocketIds |-> <<>>]
    /\ next_event = 1
    /\ bc = NoBroadcast
    /\ st = NoSend
    /\ recent_messages = <<>>
    /\ join_result = None
    /\ seek_response = "none"
    /\ play_result = "none"
    /\ handlers = [w \in SocketIds |-> NoHandler]
    /\ clock = 0
    /\ stamps = <<>>

(***************************************************************************)
(* The environment: a peer goes away.  The next send on the socket raises  *)
(* WebSocketDisconnect ("closed") or another exception ("error").          *)
(***************************************************************************)
break_socket(w, how) ==
    /\ UNCHANGED <<engineVars, callVars>>
    /\ ~BroadcastRunning
    /\ sockets[w] = "ok"
    /\ sockets' = [sockets EXCEPT ![w] = how]
    /\ UNCHANGED <<connections, room_connections, message_history, delivered,
                   next_event, bc, st>>

(***************************************************************************)
(* connect(): accept the socket, register the client, send the welcome     *)
(* message.  The welcome goes to the socket just accepted: its send is     *)
(* taken to succeed at once.                                               *)
(***************************************************************************)
connect(client_id) ==
    /\ UNCHANGED <<engineVars, callVars>>
    /\ ~BroadcastRunning
    /\ \E w \in SocketIds :
        /\ sockets[w] = "new"
        /\ \A v \in SocketIds : sockets[v] = "new" => w <= v
        /\ sockets' = [sockets EXCEPT ![w] = "ok"]
        /\ connections' = dict_set(connections, client_id,
               [client_id |-> client_id, websocket |-> w, subscriptions |-> {}])
    /\ bc' = after_mutation(bc, {}, room_connections)
    /\ UNCHANGED <<room_connections, message_history, delivered, next_event, st>>

\* a caller (the endpoint's finally clause) calls disconnect(client_id)
endpoint_disconnect(client_id) ==
    /\ UNCHANGED <<engineVars, callVars>>
    /\ ~BroadcastRunning
    /\ LET m == disconnect(Manager, client_id)
       IN /\ connections' = m.connections
          /\ room_connections' = m.room_connections
          /\ bc' = IF m = Manager THEN bc
                   ELSE after_mutation(bc, {}, room_connections')
    /\ UNCHANGED <<message_history, sockets, delivered, next_event, st>>

\* a join_room() that does not look whether the client is connected
join_room_unchecked(client_id, room) ==
    /\ UNCHANGED <<engineVars, recent_messages, serverVars>>
    /\ ~BroadcastRunning
    /\ room_connections' =
         [r \in DOMAIN room_connections \cup {room} |->
            IF r = room
            THEN (IF room \in DOMAIN room_connections
                  THEN room_connections[room] ELSE {}) \cup {client_id}
            ELSE room_connections[r]]
    /\ connections' =
         IF client_id \in Keys(connections)
         THEN [connections EXCEPT
                 ![IndexOf(connections, client_id)].subscriptions = @ \cup {room}]
         ELSE connections
    /\ bc' = IF room_connections' = room_connections /\ connections' = connections
             THEN bc
             ELSE after_mutation(bc, {}, room_connections')
    /\ join_result' = [value |-> TRUE]
    /\ UNCHANGED <<message_history, sockets, delivered, next_event, st>>

join_room(client_id, room) ==
    /\ UNCHANGED <<engineVars, recent_messages, serverVars>>
    /\ ~BroadcastRunning
    /\ IF client_id \notin Keys(connections)
       THEN /\ join_result' = [value |-> FALSE]
            /\ UNCHANGED <<connections, room_connections, bc>>
       ELSE /\ room_connections' =
                 [r \in DOMAIN room_connections \cup {room} |->
                    IF r = room
                    THEN (IF room \in DOMAIN room_connections
                          THEN room_connections[room] ELSE {}) \cup {client_id}
                    ELSE room_connections[r]]
            /\ connections' = [connections EXCEPT
                   ![IndexOf(connections, client_id)].subscriptions = @ \cup {room}]
            /\ bc' \in IF room_connections' = room_connections
                            /\ connections' = connections
                         THEN {bc}
                         ELSE Reslotted(after_mutation(bc, {}, room_connections'),
                                        client_id, room)
            /\ join_result' = [value |-> TRUE]
    /\ UNCHANGED <<message_history, sockets, delivered, next_event, st>>

leave_room(client_id, room) ==
    /\ UNCHANGED <<engineVars, callVars>>
    /\ ~BroadcastRunning
    /\ LET emptied == /\ room \in DOMAIN room_connections
                      /\ room_connections[room] \ {client_id} = {}
       IN /\ room_connections' =
               IF emptied
               THEN [r \in DOMAIN room_connections \ {room} |-> room_connections[r]]
               ELSE [r \in DOMAIN room_connections |->
                       IF r = room THEN room_connections[r] \ {client_id}
                       ELSE room_connections[r]]
          /\ connections' =
               IF client_id \in Keys(connections)
               THEN [connections EXCEPT
                       ![IndexOf(connections, client_id)].subscriptions = @ \ {room}]
               ELSE connections
          /\ bc' = IF room_connections' = room_connections /\ connections' = connections
                   THEN bc
                   ELSE after_mutation(bc, IF emptied THEN {room} ELSE {},
                                       room_connections')
    /\ UNCHANGED <<message_history, sockets, delivered, next_event, st>>

(***************************************************************************)
(* send_to_client() called on its own (the replies of                      *)
(* handle_client_message): the call, and its return from send_text.        *)
(***************************************************************************)
send_to_client(client_id) ==
    /\ UNCHANGED <<engineVars, callVars>>
    /\ ~BroadcastRunning
    /\ st.pc # "sending"
    /\ st' = IF client_id \notin Keys(connections)
             THEN [NoSend EXCEPT !.result = FALSE]
             ELSE [pc |-> "sending", client_id |-> client_id,
                   websocket |-> connections[IndexOf(connections, client_id)].websocket,
                   result |-> FALSE]
    /\ UNCHANGED <<connections, room_connections, message_history, sockets,
                   delivered, next_event, bc>>

\* a send_to_client whose clean-up leaves the client in its rooms
send_outcome_forgets_rooms(m, client_id, s) ==
    CASE s = "ok"     -> [manager |-> m, result |-> TRUE]
      [] s = "closed" -> [manager |-> disconnect_keeps_rooms(m, client_id),
                          result |-> FALSE]
      [] OTHER        -> [manager |-> m, result |-> FALSE]

\* what send_to_client does to the manager once send_text has returned or
\* raised on a socket in state s: [manager, result]
send_outcome(m, client_id, s) ==
    CASE s = "ok"     -> [manager |-> m, result |-> TRUE]
      [] s = "closed" -> [manager |-> disconnect(m, client_id), result |-> FALSE]
      [] OTHER        -> [manager |-> m, result |-> FALSE]

send_to_client_returns ==
    /\ UNCHANGED <<engineVars, callVars>>
    /\ ~BroadcastRunning
    /\ st.pc = "sending"
    /\ LET out == send_outcome(Manager, st.client_id, sockets[st.websocket])
       IN /\ connections' = out.manager.connections
          /\ room_connections' = out.manager.room_connections
          /\ st' = [NoSend EXCEPT !.result = out.result]
          /\ bc' = IF out.manager = Manager THEN bc
                   ELSE after_mutation(bc, {}, room_connections')
    /\ UNCHANGED <<message_history, sockets, delivered, next_event>>

(***************************************************************************)
(* broadcast() and broadcast_to_room(): the call, each step of the for     *)
(* loop, the return of a send.  The task is suspended only inside          *)
(* send_text ("sending"); in "iter" it is running.                         *)
(***************************************************************************)
\* a broadcast() call, of the first max_events broadcasts of the run
broadcast_message(exclude_clients, max_events) ==
    /\ UNCHANGED <<engineVars, callVars>>
    /\ bc.pc \in {"idle", "done", "raised"}
    /\ next_event <= max_events
    /\ next_event' = next_event + 1
    /\ bc' = [NoBroadcast EXCEPT
                !.pc = "iter", !.kind = "all", !.exclude = exclude_clients,
                !.event = next_event,
                !.used = dict_len(connections),
                !.remaining = dict_len(connections)]
    /\ UNCHANGED <<connections, room_connections, message_history, sockets,
                   delivered, st>>

broadcast(exclude_clients) == broadcast_message(exclude_clients, MaxEvents)

broadcast_to_room_message(room, exclude_clients, order, max_events) ==
    /\ UNCHANGED <<engineVars, callVars>>
    /\ bc.pc \in {"idle", "done", "raised"}
    /\ next_event <= max_events
    /\ next_event' = next_event + 1
    /\ bc' = IF room \notin DOMAIN room_connections
             THEN [NoBroadcast EXCEPT !.pc = "done", !.result = 0]
             ELSE [NoBroadcast EXCEPT
                     !.pc = "iter", !.kind = "room", !.room = room,
                     !.exclude = exclude_clients, !.event = next_event,
                     !.used = Cardinality(room_connections[room]),
                     !.order = order]
    /\ UNCHANGED <<connections, room_connections, message_history, sockets,
                   delivered, st>>

broadcast_to_room(room, exclude_clients, order) ==
    broadcast_to_room_message(room, exclude_clients, order, MaxEvents)

\* the collection the for loop of the broadcast task iterates
Traversed ==
    IF bc.kind = "all" THEN Keys(connections)
    ELSE IF bc.room \in DOMAIN room_connections THEN room_connections[bc.room]
    ELSE {}

\* the iterator's size check fails: RuntimeError ("changed size during iteration")
SizeChanged ==
    IF bc.kind = "all"
    THEN dict_len(connections) # bc.used
    ELSE bc.stale \/ Cardinality(Traversed) # bc.used

\* the positions the iterator has still to visit
Ahead ==
    IF bc.kind = "all"
    THEN {k \in LiveIndexes(connections) : k > bc.pos}
    ELSE {k \in DOMAIN bc.order : k > bc.pos /\ bc.order[k] \in Traversed}

\* the dict iterator finds a key though it has handed out as many as the
\* dict held when the loop began: RuntimeError ("keys changed during
\* iteration"); the set iterator has no such check
KeysChanged == bc.kind = "all" /\ Ahead # {} /\ bc.remaining = 0

First(S) == CHOOSE k \in S : \A j \in S : k <= j

\* an exclude set nobody is in
is_excluded_never(client_id, exclude_clients) == FALSE

\* "client_id not in exclude_clients" is false
is_excluded(client_id, exclude_clients) == client_id \in exclude_clients

\* the for statement asks the iterator for the next client id
broadcast_next ==
    /\ UNCHANGED <<engineVars, callVars>>
    /\ bc.pc = "iter"
    /\ IF SizeChanged \/ KeysChanged
       THEN \* RuntimeError leaves broadcast(): no cleanup, no history
            /\ bc' = [NoBroadcast EXCEPT !.pc = "raised"]
            /\ UNCHANGED <<connections, room_connections, message_history>>
       ELSE IF Ahead = {}
       THEN \* the loop is over: clean up, store the message, return
            /\ LET m == disconnect_all(Manager, bc.disconnected_clients)
               IN /\ connections' = m.connections
                  /\ room_connections' = m.room_connections
            /\ message_history' = IF bc.kind = "all"
                                  THEN add_to_history(message_history, bc.event)
                                  ELSE message_history
            /\ bc' = [NoBroadcast EXCEPT !.pc = "done", !.result = bc.sent_count]
       ELSE LET k == First(Ahead)
                c == IF bc.kind = "all" THEN connections[k].client_id
                     ELSE bc.order[k]
            IN /\ IF /\ ~is_excluded(c, bc.exclude)
                     /\ bc.kind = "room" => c \in Keys(connections)
                  THEN \* send_to_client: suspended in send_text
                       bc' = [bc EXCEPT
                                !.pos = k, !.pc = "sending", !.client_id = c,
                                !.remaining = IF bc.kind = "all" THEN @ - 1 ELSE @,
                                !.websocket =
                                    connections[IndexOf(connections, c)].websocket]
                  ELSE bc' = [bc EXCEPT
                                !.pos = k,
                                !.remaining = IF bc.kind = "all" THEN @ - 1 ELSE @]
               /\ UNCHANGED <<connections, room_connections, message_history>>
    /\ UNCHANGED <<sockets, delivered, next_event, st>>

\* send_text has returned or raised: send_to_client returns to the loop
broadcast_send_returns ==
    /\ UNCHANGED <<engineVars, callVars>>
    /\ bc.pc = "sending"
    /\ LET out == send_outcome(Manager, bc.client_id, sockets[bc.websocket])
       IN /\ connections' = out.manager.connections
          /\ room_connections' = out.manager.room_connections
          /\ delivered' = IF sockets[bc.websocket] = "ok"
                          THEN [delivered EXCEPT ![bc.websocket] = Append(@, bc.event)]
                          ELSE delivered
          /\ bc' = IF out.result
                   THEN [bc EXCEPT !.pc = "iter", !.sent_count = @ + 1]
                   ELSE [bc EXCEPT !.pc = "iter",
                            !.disconnected_clients = Append(@, bc.client_id)]
    /\ UNCHANGED <<message_history, sockets, next_event, st>>

\* list[-k:]
LastOf(list, k) ==
    IF k = 0 \/ k >= Len(list) THEN list
    ELSE SubSeq(list, Len(list) - k + 1, Len(list))

(***************************************************************************)
(* handle_client_message() with a "get_history" message asking for the     *)
(* last n messages: up to the suspension in the send of the reply.         *)
(***************************************************************************)
get_history(client_id, n) ==
    /\ UNCHANGED <<engineVars, join_result, serverVars>>
    /\ ~BroadcastRunning
    /\ st.pc # "sending"
    /\ recent_messages' = LastOf(message_history, 50)
    /\ st' = IF client_id \notin Keys(connections)
             THEN [NoSend EXCEPT !.result = FALSE]
             ELSE [pc |-> "sending", client_id |-> client_id,
                   websocket |-> connections[IndexOf(connections, client_id)].websocket,
                   result |-> FALSE]
    /\ UNCHANGED <<connections, room_connections, message_history, sockets,
                   delivered, next_event, bc>>

\* the numbers of messages history requests ask for
RequestedCounts == {1, 50}

\* broadcasts, with the other tasks acting while a broadcast is suspended
ManagerNext ==
    \/ \E w \in SocketIds, how \in {"closed", "error"} : break_socket(w, how)
    \/ \E c \in Clients : connect(c)
    \/ \E c \in Clients : endpoint_disconnect(c)
    \/ \E c \in Clients, r \in Rooms : join_room(c, r)
    \/ \E c \in Clients, r \in Rooms : leave_room(c, r)
    \/ \E x \in Excludes : broadcast(x)
    \/ \E r \in Rooms, x \in Excludes, o \in Orders : broadcast_to_room(r, x, o)
    \/ broadcast_next
    \/ broadcast_send_returns

\* direct sends, with the other tasks acting while a send is suspended
SendNext ==
    \/ \E w \in SocketIds, how \in {"closed", "error"} : break_socket(w, how)
    \/ \E c \in Clients : connect(c)
    \/ \E c \in Clients : endpoint_disconnect(c)
    \/ \E c \in Clients, r \in Rooms : join_room(c, r)
    \/ \E c \in Clients, r \in Rooms : leave_room(c, r)
    \/ \E c \in Clients : send_to_client(c)
    \/ send_to_client_returns

Init == EngineInit /\ ManagerInit

\* the websocket manager and its clients
Spec == Init /\ [][ManagerNext]_vars

\* the websocket manager and direct sends to its clients
SendSpec == Init /\ [][SendNext]_vars

\* the transport engine
EngineSpec == Init /\ [][EngineNext]_vars

\* the registry and the rooms under connect, join, leave and disconnect
RegistryNext ==
    \/ \E c \in Clients : connect(c)
    \/ \E c \in Clients : endpoint_disconnect(c)
    \/ \E c \in Clients, r \in Rooms : join_room(c, r)
    \/ \E c \in Clients, r \in Rooms : leave_room(c, r)

RegistrySpec == Init /\ [][RegistryNext]_vars

\* projects whose time signatures differ, both valid
SignatureProjects ==
    [tempo : Tempos, time_signature : {3, 2}, tracks : {<<>>}]

\* the transport engine when the project (and its time signature) changes
SignatureNext ==
    \/ initialize
    \/ play
    \/ pause
    \/ stop
    \/ \E project \in SignatureProjects : set_project(project)
    \/ get_status
    \/ \E i \in LoopIds, pt \in ProcessingPercents : audio_processing_loop(i, pt)

SignatureSpec == Init /\ [][SignatureNext]_vars

(***************************************************************************)
(* Broadcasts to all and to the room "transport" while clients connect,    *)
(* disconnect, and join and leave the room; every send succeeds.           *)
(***************************************************************************)
RoomPassNext ==
    \/ \E c \in Clients : connect(c)
    \/ \E c \in Clients : endpoint_disconnect(c)
    \/ \E c \in Clients : join_room(c, "transport")
    \/ \E c \in Clients : leave_room(c, "transport")
    \/ broadcast_message({}, MaxPassEvents)
    \/ \E o \in Orders : broadcast_to_room_message("transport", {}, o, MaxPassEvents)
    \/ broadcast_next
    \/ broadcast_send_returns

RoomPassSpec == Init /\ [][RoomPassNext]_vars

(***************************************************************************)
(* The registry and the room "transport" under connects, disconnects,      *)
(* joins, leaves and direct sends that find the socket open or closed.     *)
(***************************************************************************)
MembershipNext ==
    \/ \E w \in SocketIds : break_socket(w, "closed")
    \/ \E c \in Clients : connect(c)
    \/ \E c \in Clients : endpoint_disconnect(c)
    \/ \E c \in Clients : join_room(c, "transport")
    \/ \E c \in Clients : leave_room(c, "transport")
    \/ \E c \in Clients : send_to_client(c)
    \/ send_to_client_returns

MembershipSpec == Init /\ [][MembershipNext]_vars

\* broadcasts that leave a client out: the clients connect under ids of
\* their own, join "transport" and lose their sockets (closed or failing)
\* before the first broadcast is called
ExcludeNext ==
    \/ \E w \in SocketIds, how \in {"closed", "error"} :
           bc.pc = "idle" /\ break_socket(w, how)
    \/ \E c \in Clients : bc.pc = "idle" /\ c \notin Keys(connections) /\ connect(c)
    \/ \E c \in Clients : bc.pc = "idle" /\ join_room(c, "transport")
    \/ \E x \in Excludes : broadcast(x)
    \/ \E x \in Excludes, o \in Orders : broadcast_to_room("transport", x, o)
    \/ broadcast_next
    \/ broadcast_send_returns

ExcludeSpec == Init /\ [][ExcludeNext]_vars

(***************************************************************************)
(* WebSocketMessage and the helpers that build one (broadcast_notification *)
(* and broadcast_error through broadcast(), broadcast_transport_update     *)
(* through broadcast_to_room()).  clock is datetime.now(); the module is   *)
(* imported at clock 0.  stamps lists the messages in the order they were  *)
(* built, each with the clock value of its construction.                   *)
(***************************************************************************)
\* "timestamp: datetime = datetime.now()" in the class body: the default is
\* computed once, when the class is defined
default_timestamp == 0

\* WebSocketMessage(type=..., data=...) built at clock value now
WebSocketMessage(event, now) ==
    [event |-> event, timestamp |-> default_timestamp, constructed |-> now]

\* time passes
advance_clock ==
    /\ UNCHANGED <<engineVars, recent_messages, join_result, seek_response,
                   play_result, handlers, stamps>>
    /\ ~BroadcastRunning
    /\ clock < MaxClock
    /\ clock' = clock + 1
    /\ UNCHANGED <<connections, room_connections, message_history, sockets,
                   delivered, next_event, bc, st>>

\* broadcast_notification() and broadcast_error(): build the message, then
\* broadcast(message)
broadcast_notification ==
    /\ UNCHANGED <<engineVars, recent_messages, join_result, seek_response,
                   play_result, handlers, clock>>
    /\ bc.pc \in {"idle", "done", "raised"}
    /\ next_event <= MaxStamped
    /\ stamps' = Append(stamps, WebSocketMessage(next_event, clock))
    /\ next_event' = next_event + 1
    /\ bc' = [NoBroadcast EXCEPT
                !.pc = "iter", !.kind = "all", !.exclude = {},
                !.event = next_event,
                !.used = dict_len(connections),
                !.remaining = dict_len(connections)]
    /\ UNCHANGED <<connections, room_connections, message_history, sockets,
                   delivered, st>>

\* broadcast_transport_update(): build the message, then
\* broadcast_to_room("transport", message)
broadcast_transport_update(order) ==
    /\ UNCHANGED <<engineVars, recent_messages, join_result, seek_response,
                   play_result, handlers, clock>>
    /\ bc.pc \in {"idle", "done", "raised"}
    /\ next_event <= MaxStamped
    /\ stamps' = Append(stamps, WebSocketMessage(next_event, clock))
    /\ next_event' = next_event + 1
    /\ bc' = IF "transport" \notin DOMAIN room_connections
             THEN [NoBroadcast EXCEPT !.pc = "done", !.result = 0]
             ELSE [NoBroadcast EXCEPT
                     !.pc = "iter", !.kind = "room", !.room = "transport",
                     !.exclude = {}, !.event = next_event,
                     !.used = Cardinality(room_connections["transport"]),
                     !.order = order]
    /\ UNCHANGED <<connections, room_connections, message_history, sockets,
                   delivered, st>>

\* the helpers called as time passes, with clients connected and joined
EventNext ==
    \/ advance_clock
    \/ \E c \in Clients : connect(c)
    \/ \E c \in Clients : join_room(c, "transport")
    \/ broadcast_notification
    \/ \E o \in Orders : broadcast_transport_update(o)
    \/ broadcast_next
    \/ broadcast_send_returns

EventSpec == Init /\ [][EventNext]_vars

(***************************************************************************)
(* The socket endpoints (websocket/endpoints.py).  One coroutine runs per  *)
(* accepted socket: it registers the client, joins the rooms of its        *)
(* endpoint, then loops on receive_text().  A step is taken with no        *)
(* broadcast or direct send of another task in flight; the sends of the    *)
(* handler itself are taken to return at once.  A coroutine that loops     *)
(* without suspending ("spinning") keeps the event loop: no other          *)
(* coroutine runs.                                                         *)
(***************************************************************************)
Endpoints == {"main", "audio", "projects"}

\* the rooms an endpoint joins for its client
AutoRooms(endpoint) ==
    CASE endpoint = "audio"    -> {"transport", "audio_levels", "playhead", "performance"}
      [] endpoint = "projects" -> {"projects", "tracks"}
      [] OTHER                 -> {}

\* join_room(client_id, room) for each room of a set
join_rooms(m, client_id, rooms) ==
    IF client_id \notin Keys(m.connections) \/ rooms = {}
    THEN m
    ELSE [connections |->
              [m.connections EXCEPT
                 ![IndexOf(m.connections, client_id)].subscriptions = @ \cup rooms],
          room_connections |->
              [r \in DOMAIN m.room_connections \cup rooms |->
                 IF r \in rooms
                 THEN (IF r \in DOMAIN m.room_connections
                       THEN m.room_connections[r] ELSE {}) \cup {client_id}
                 ELSE m.room_connections[r]]]

\* leave_room(client_id, room) as a function of the manager
left_room(m, client_id, room) ==
    LET emptied == /\ room \in DOMAIN m.room_connections
                   /\ m.room_connections[room] \ {client_id} = {}
    IN [connections |->
            IF client_id \in Keys(m.connections)
            THEN [m.connections EXCEPT
                    ![IndexOf(m.connections, client_id)].subscriptions = @ \ {room}]
            ELSE m.connections,
        room_connections |->
            IF emptied
            THEN [r \in DOMAIN m.room_connections \ {room} |-> m.room_connections[r]]
            ELSE [r \in DOMAIN m.room_connections |->
                    IF r = room THEN m.room_connections[r] \ {client_id}
                    ELSE m.room_connections[r]]]

\* the reply handle_client_message sends through send_to_client
replied(m, client_id, socks) ==
    IF client_id \notin Keys(m.connections)
    THEN m
    ELSE send_outcome(m, client_id,
             socks[m.connections[IndexOf(m.connections, client_id)].websocket]).manager

NoHandlerSpinning == \A w \in SocketIds : handlers[w].pc # "spinning"

HandlerMayRun == NoHandlerSpinning /\ bc.pc = "idle" /\ st.pc = "idle"

\* the endpoint coroutine from its start to its first receive_text()
endpoint_open(w, endpoint, client_id) ==
    /\ UNCHANGED <<engineVars, recent_messages, join_result, seek_response,
                   play_result, clock, stamps>>
    /\ HandlerMayRun
    /\ sockets[w] = "new"
    /\ \A v \in SocketIds : sockets[v] = "new" => w <= v
    /\ handlers[w].pc = "none"
    /\ sockets' = [sockets EXCEPT ![w] = "ok"]
    /\ LET registered ==
               [connections |-> dict_set(connections, client_id,
                    [client_id |-> client_id, websocket |-> w, subscriptions |-> {}]),
                room_connections |-> room_connections]
           m == join_rooms(registered, client_id, AutoRooms(endpoint))
       IN /\ connections' = m.connections
          /\ room_connections' = m.room_connections
    /\ handlers' = [handlers EXCEPT ![w] =
           [pc |-> "receiving", endpoint |-> endpoint, client_id |-> client_id]]
    /\ UNCHANGED <<message_history, delivered, next_event, bc, st>>

\* receive_text() returns a subscribe or an unsubscribe message for one
\* room: handle_client_message, then the loop goes on
endpoint_message(w, type, room) ==
    /\ UNCHANGED <<engineVars, recent_messages, join_result, seek_response,
                   play_result, clock, stamps>>
    /\ HandlerMayRun
    /\ handlers[w].pc = "receiving"
    /\ sockets[w] = "ok"
    /\ LET c == handlers[w].client_id
           changed == IF type = "subscribe"
                      THEN join_rooms(Manager, c, {room})
                      ELSE left_room(Manager, c, room)
           m == replied(changed, c, sockets)
       IN /\ connections' = m.connections
          /\ room_connections' = m.room_connections
    /\ UNCHANGED <<handlers, message_history, sockets, delivered, next_event, bc, st>>

\* receive_text() raises WebSocketDisconnect on a closed socket.  The
\* "except Exception" inside the loop catches it.  The main endpoint then
\* sends an error message: the send raises on the closed socket, which
\* leaves the loop and runs the finally clause.  The audio and projects
\* endpoints log and call receive_text() again, which raises without
\* suspending: the loop goes on for ever.
endpoint_receive_fails(w) ==
    /\ UNCHANGED <<engineVars, recent_messages, join_result, seek_response,
                   play_result, clock, stamps>>
    /\ HandlerMayRun
    /\ handlers[w].pc = "receiving"
    /\ sockets[w] = "closed"
    /\ IF handlers[w].endpoint = "main"
       THEN LET m == disconnect(Manager, handlers[w].client_id)
            IN /\ connections' = m.connections
               /\ room_connections' = m.room_connections
               /\ handlers' = [handlers EXCEPT ![w].pc = "ended"]
       ELSE /\ handlers' = [handlers EXCEPT ![w].pc = "spinning"]
            /\ UNCHANGED <<connections, room_connections>>
    /\ UNCHANGED <<message_history, sockets, delivered, next_event, bc, st>>

EndpointNext ==
    \/ \E w \in SocketIds : break_socket(w, "closed")
    \/ \E w \in SocketIds, e \in Endpoints, c \in Clients : endpoint_open(w, e, c)
    \/ \E w \in SocketIds, t \in {"subscribe", "unsubscribe"}, r \in Rooms :
           endpoint_message(w, t, r)
    \/ \E w \in SocketIds : endpoint_receive_fails(w)

\* the endpoint coroutines and their clients
EndpointSpec == Init /\ [][EndpointNext]_vars

\* the event loop runs every coroutine that is ready
EndpointLiveSpec ==
    EndpointSpec /\ \A w \in SocketIds : WF_vars(endpoint_receive_fails(w))

(***************************************************************************)
(* The engine behind its HTTP transport routes.                            *)
(***************************************************************************)
TransportNext ==
    \/ initialize
    \/ play
    \/ pause
    \/ stop
    \/ \E project \in SignatureProjects : set_project(project)
    \/ get_status
    \/ \E i \in LoopIds, pt \in ProcessingPercents : audio_processing_loop(i, pt)
    \/ \E position \in SeekPositions : seek(position)

TransportSpec == Init /\ [][TransportNext]_vars

(***************************************************************************)
(* The engine playing a project at tempo 120 in 4/4 that is loaded before  *)
(* playback starts, with the completed tick cycles counted.                *)
(***************************************************************************)
ScenarioProjects ==
    [tempo : {120}, time_signature : {4}, tracks : {<<>>}]

ScenarioNext ==
    \/ initialize
    \/ \E project \in ScenarioProjects : set_project(project)
    \/ current_project # None /\ play
    \/ pause
    \/ get_status
    \/ \E i \in LoopIds, pt \in ProcessingPercents :
           audio_processing_loop_counted(i, pt)

ScenarioSpec == Init /\ [][ScenarioNext]_vars

(***************************************************************************)
(* The engine under the event loop's scheduling: a tick loop task that is  *)
(* ready to run (just created, or due to wake from its sleep) is run in    *)
(* the end.                                                                *)
(***************************************************************************)
LiveNext ==
    \/ initialize
    \/ play
    \/ pause
    \/ stop
    \/ \E project \in Projects : set_project(project)
    \/ \E i \in LoopIds, pt \in ProcessingPercents : audio_processing_loop(i, pt)

LiveSpec ==
    /\ Init
    /\ [][LiveNext]_vars
    /\ \A i \in LoopIds :
          WF_vars(\E pt \in ProcessingPercents : audio_processing_loop(i, pt))

(***************************************************************************)
(* The engine through its life: initialized, played, paused, stopped and   *)
(* shut down, any number of times, with play() also called while it is not *)
(* initialized, and with recording toggled and the status read.            *)
(***************************************************************************)
LifecycleNext ==
    \/ initialize
    \/ shutdown
    \/ play
    \/ play_not_initialized
    \/ pause
    \/ stop
    \/ record
    \/ get_status
    \/ \E i \in LoopIds, pt \in ProcessingPercents : audio_processing_loop(i, pt)

LifecycleSpec == Init /\ [][LifecycleNext]_vars

(***************************************************************************)
(* The engine with cycles that take half of, exactly, and one and a half   *)
(* times the buffer duration (processing_time as a percentage of it).      *)
(***************************************************************************)
MetricsPercents == {50, 100, 150}

MetricsNext ==
    \/ initialize
    \/ play
    \/ pause
    \/ stop
    \/ \E project \in Projects : set_project(project)
    \/ \E i \in LoopIds, pt \in MetricsPercents : audio_processing_loop(i, pt)

MetricsSpec == Init /\ [][MetricsNext]_vars

\* the message history under a long run of broadcasts (nobody connected)
HistoryNext ==
    \/ broadcast_message({}, MaxAppends)
    \/ broadcast_next

HistorySpec == Init /\ [][HistoryNext]_vars

\* broadcasts and history requests of the connected clients
RequestNext ==
    \/ \E c \in Clients : connect(c)
    \/ broadcast_message({}, MaxStored)
    \/ broadcast_next
    \/ broadcast_send_returns
    \/ \E c \in Clients, n \in RequestedCounts : get_history(c, n)
    \/ send_to_client_returns

RequestSpec == Init /\ [][RequestNext]_vars

(***************************************************************************)
(* Broadcast layer: properties                                             *)
(***************************************************************************)
\* the socket of a connected client
SocketOf(conns, c) == conns[IndexOf(conns, c)].websocket

\* socket w was written the message
Received(w, message) == \E i \in 1..Len(delivered[w]) : delivered[w][i] = message

\* the client ids in room r
InRoom(rooms, r) == IF r \in DOMAIN rooms THEN rooms[r] ELSE {}

\* the elements of a list
Elements(list) == {list[i] : i \in 1..Len(list)}

\* C1: during a broadcast or broadcast_to_room pass the collection being
\* traversed is not mutated by the pass: when a send returns to the loop,
\* whatever way it failed, the connection set (or the room's member set) is
\* what it was; failed clients are disconnected only once the pass is over.
C1_NoMutationDuringPass ==
    [][(bc.pc = "sending" /\ bc'.pc = "iter") => Traversed' = Traversed]_vars

\* C2: a client's send failure never aborts a broadcast: a pass no other
\* task interfered with ends by returning a count, never by raising, and
\* every targeted, non-excluded client whose socket works has then been
\* written the event.
C2_FailureDoesNotAbort ==
    [][(bc.pc = "iter" /\ ~bc.interfered /\ bc'.pc \in {"done", "raised"})
         => /\ bc'.pc = "done"
            /\ \A c \in (Traversed \cap Keys(connections)) \ bc.exclude :
                 sockets[SocketOf(connections, c)] = "ok"
                   => Received(SocketOf(connections, c), bc.event)]_vars

\* C8: whenever send_to_client(c) returns False (the client is not
\* connected, or the send failed in any way), c is then in neither the
\* registry nor any room.
C8_FalseMeansDisconnected ==
    [][\A c \in Clients :
         (/\ \/ send_to_client(c) /\ st'.pc = "idle"
             \/ send_to_client_returns /\ st.client_id = c
          /\ ~st'.result)
         => /\ c \notin Keys(connections')
            /\ \A r \in DOMAIN room_connections' : c \notin room_connections'[r]]_vars

\* C9: broadcast_to_room issues a send only to a client that is then in the
\* room's member set, and with an empty exclude set the count it returns is
\* the number of clients in the room (counted when the pass began, or when
\* it ended) minus the number whose send failed.
C9_RoomDeliveryAndCount ==
    [][/\ (bc.kind = "room" /\ bc.pc = "iter" /\ bc'.pc = "sending")
            => bc'.client_id \in InRoom(room_connections, bc.room)
       /\ (bc.kind = "room" /\ bc.exclude = {} /\ bc.pc = "iter" /\ bc'.pc = "done")
            => \/ bc'.result = bc.used - Len(bc.disconnected_clients)
               \/ bc'.result = Cardinality(InRoom(room_connections, bc.room))
                                  - Len(bc.disconnected_clients)]_vars

\* C10: two connected clients are in a room and the socket of one of them is
\* broken: a broadcast_to_room on that room with nothing excluded (and no
\* other task interfering) returns 1, the surviving client has been written
\* the event, and afterwards the room's members are exactly the surviving
\* client and the failed client is gone from the registry.
C10_TwoClientsOneBroken ==
    [][LET failed == Elements(bc.disconnected_clients)
           survivors == InRoom(room_connections, bc.room) \ failed
       IN (/\ bc.kind = "room" /\ bc.exclude = {} /\ ~bc.interfered
           /\ bc.used = 2
           /\ bc.pc = "iter" /\ bc'.pc \in {"done", "raised"}
           /\ Cardinality(failed) = 1
           /\ Cardinality(survivors) = 1
           /\ \A c \in survivors :
                c \in Keys(connections) /\ sockets[SocketOf(connections, c)] = "ok")
          => /\ bc'.pc = "done"
             /\ bc'.result = 1
             /\ \A c \in survivors : Received(SocketOf(connections, c), bc.event)
             /\ InRoom(room_connections', bc.room) = survivors
             /\ failed \cap Keys(connections') = {}]_vars

\* C11: every broadcast(event, exclude) call appends its event to the
\* message history exactly once, whatever happens to the sends: the history
\* is untouched while the pass is under way, and when the call ends (no
\* other task having acted meanwhile) the event has been appended.
C11_BroadcastAppendsOnce ==
    [][(bc.kind = "all" /\ bc.pc \in {"iter", "sending"} /\ ~bc.interfered)
         => IF bc.pc = "iter" /\ bc'.pc \in {"done", "raised"}
            THEN message_history' = add_to_history(message_history, bc.event)
            ELSE message_history' = message_history]_vars

\* C12: every broadcast_to_room call appends its event to the message
\* history when it ends, also when the room is unknown or has no members.
C12_RoomBroadcastAppends ==
    [][/\ (bc.kind = "room" /\ bc.pc = "iter" /\ bc'.pc = "done")
            => message_history' = add_to_history(message_history, bc.event)
       /\ (next_event' # next_event /\ bc'.pc = "done")
            => message_history' = add_to_history(message_history, next_event)]_vars

\* the number of messages appended to the history so far, when no broadcast
\* call was left by an exception
Appended == IF bc.pc \in {"iter", "sending"} THEN next_event - 2 ELSE next_event - 1

\* C13: the message history never holds more than max_history messages, and
\* eviction is oldest-first: after any number of appends the history is
\* exactly the last min(max_history, appends) appended messages, in the
\* order they were appended.
C13_HistoryIsBoundedRing ==
    /\ Len(message_history) <= max_history
    /\ Len(message_history) = IF Appended < max_history THEN Appended ELSE max_history
    /\ \A i \in 1..Len(message_history) :
         message_history[i] = Appended - Len(message_history) + i

\* max_history + 2 messages were appended and the two oldest are gone
C13_Witness ==
    /\ Appended = max_history + 2
    /\ Len(message_history) = max_history
    /\ message_history[1] = 3

\* C14: a history request for the last n messages is answered with exactly
\* the last min(n, size) messages of the history, oldest first.
C14_RecentReturnsLastN ==
    [][\A c \in Clients, n \in RequestedCounts :
         get_history(c, n)
           => LET size == Len(message_history)
                  m == IF n < size THEN n ELSE size
              IN recent_messages' = SubSeq(message_history, size - m + 1, size)]_vars

\* C15: connect(client_id) for a client id that is already connected is
\* rejected: the existing connection record (its socket, its subscriptions)
\* and the room memberships are left as they were.
C15_DuplicateConnectRejected ==
    [][\A c \in Clients :
         (connect(c) /\ c \in Keys(connections))
           => /\ connections' = connections
              /\ room_connections' = room_connections]_vars

\* the connection record of client c, or None
RecordOf(conns, c) == IF c \in Keys(conns) THEN conns[IndexOf(conns, c)] ELSE None

\* C16: disconnect(client_id) removes the client's record and removes the id
\* from every room, leaving the records and memberships of the other clients
\* as they were; disconnecting an unknown id changes neither the registry
\* nor the rooms; disconnecting twice is the same as disconnecting once.
C16_DisconnectRemovesAndIsIdempotent ==
    /\ [][\A c \in Clients :
            endpoint_disconnect(c)
              => /\ c \notin Keys(connections')
                 /\ \A d \in Clients \ {c} :
                      RecordOf(connections', d) = RecordOf(connections, d)
                 /\ \A r \in Rooms :
                      InRoom(room_connections', r) = InRoom(room_connections, r) \ {c}
                 /\ c \notin Keys(connections)
                      => /\ connections' = connections
                         /\ room_connections' = room_connections]_vars
    /\ [](\A c \in Clients :
            disconnect(disconnect(Manager, c), c) = disconnect(Manager, c))

\* a client was disconnected by its endpoint (no send has failed: every
\* accepted socket works) and is gone from the room it was alone in, while
\* another client stays connected and in its room
C16_Witness ==
    /\ \A w \in SocketIds : sockets[w] # "closed" /\ sockets[w] # "error"
    /\ \E k \in 1..Len(connections) : connections[k] = Deleted
    /\ \E r \in DOMAIN room_connections : room_connections[r] = {}
    /\ \E d \in Keys(connections), r \in DOMAIN room_connections :
         room_connections[r] = {d}

\* C17: rooms exist only while populated: room_connections holds no room
\* whose member set is empty.
C17_NoEmptyRooms ==
    \A r \in DOMAIN room_connections : room_connections[r] # {}

\* C18: join_room by a connected client adds the id to the room's member
\* set (creating the room if needed) and the room to the client's
\* subscriptions; join_room by a client that is not connected fails and
\* changes nothing: no room is created, no membership recorded.
C18_JoinRequiresConnection ==
    [][\A c \in Clients, r \in Rooms :
         join_room(c, r)
           => IF c \in Keys(connections)
              THEN /\ join_result' = [value |-> TRUE]
                   /\ InRoom(room_connections', r) = InRoom(room_connections, r) \cup {c}
                   /\ RecordOf(connections', c).subscriptions
                        = RecordOf(connections, c).subscriptions \cup {r}
              ELSE /\ join_result' = [value |-> FALSE]
                   /\ connections' = connections
                   /\ room_connections' = room_connections]_vars

\* a connected client has joined a room that did not exist, and the last
\* join_room, by a client that was not connected, has failed
C18_Witness ==
    /\ join_result = [value |-> FALSE]
    /\ \E c \in Keys(connections), r \in DOMAIN room_connections :
         /\ c \in room_connections[r]
         /\ r \in RecordOf(connections, c).subscriptions

(* C27: what a client receives is in the order of the calls, and no call   *)
(* delivers its event to the same client twice: on every websocket the     *)
(* events delivered are in strictly increasing order of their calls        *)
(* (broadcast calls are numbered in the order they are issued, and a call  *)
(* is issued only when the one before it is over).                         *)
C27_DeliveredInCallOrderOnce ==
    \A w \in DOMAIN delivered :
        \A i, j \in 1..Len(delivered[w]) :
            i < j => delivered[w][i] < delivered[w][j]

(* C28: a broadcast (to all or to a room) that other tasks interfered with *)
(* while it was suspended in a send - a client connected, disconnected,    *)
(* joined or left a room - and none of whose sends failed, does not raise  *)
(* when it goes on: it finishes its pass and returns a count.              *)
C28_PassToleratesOtherTasks ==
    [][(bc.pc = "iter" /\ bc.interfered /\ bc.disconnected_clients = <<>>)
       => bc'.pc # "raised"]_vars

(* C34: membership is recorded alike on both sides: client c is in the     *)
(* member set of room r exactly when c has a connection record and r is in *)
(* its subscriptions.                                                      *)
C34_MembershipMatchesSubscriptions ==
    \A c \in Clients, r \in Rooms :
        c \in InRoom(room_connections, r)
        <=> /\ c \in Keys(connections)
            /\ r \in RecordOf(connections, c).subscriptions

(* C35: no room holds a dangling reference: every client id in a room's    *)
(* member set is the id of a client that is connected.                     *)
C35_RoomMembersAreConnected ==
    \A r \in DOMAIN room_connections :
        room_connections[r] \subseteq Keys(connections)

\* C35 witness: a client that had joined a room was disconnected because a
\* send to it found its socket closed; another one is still in the room
C35_Witness ==
    /\ \E w \in SocketIds : sockets[w] = "closed"
    /\ \E k \in 1..Len(connections) : connections[k] = Deleted
    /\ \E r \in DOMAIN room_connections : room_connections[r] # {}
    /\ st.pc = "idle" /\ st.result = FALSE

\* the client of a handler is in no room and has no record
Removed(c) ==
    /\ c \notin Keys(connections)
    /\ \A r \in DOMAIN room_connections : c \notin room_connections[r]

\* C32: at each of the three endpoints, once the client's socket is closed
\* the receive loop of its handler eventually ends, with the client removed
\* from the registry and from every room
C32_ClosedSocketEndsHandler ==
    \A w \in SocketIds :
        (handlers[w].pc = "receiving" /\ sockets[w] = "closed")
        ~> (handlers[w].pc = "ended" /\ Removed(handlers[w].client_id))

\* C33: when the handler of one socket finishes, the record and the room
\* memberships registered for another, still open socket with the same
\* client id stay as they are
C33_OnlyOwnRegistrationRemoved ==
    [][\A w, v \in SocketIds :
          LET c == handlers[w].client_id
          IN (/\ endpoint_receive_fails(w)
              /\ handlers'[w].pc = "ended"
              /\ v # w
              /\ handlers[v].pc = "receiving"
              /\ handlers[v].client_id = c
              /\ sockets[v] = "ok"
              /\ c \in Keys(connections)
              /\ RecordOf(connections, c).websocket = v)
             => /\ c \in Keys(connections')
                /\ RecordOf(connections', c) = RecordOf(connections, c)
                /\ \A r \in DOMAIN room_connections :
                       c \in room_connections[r]
                       => (r \in DOMAIN room_connections' /\ c \in room_connections'[r])]_vars

\* C36: a step of broadcast or broadcast_to_room never starts a send to a
\* client of the exclude set, never counts such a client as delivered or as
\* failed, delivers nothing to its socket and leaves its record and its
\* room memberships as they are, whatever the state of its socket
C36_ExcludedClientsUntouched ==
    [][(broadcast_next \/ broadcast_send_returns)
       => \A c \in bc.exclude :
            /\ bc'.pc = "sending" => bc'.client_id # c
            /\ bc'.sent_count # bc.sent_count => bc.client_id # c
            /\ c \notin Elements(bc'.disconnected_clients)
            /\ c \in Keys(connections)
               => /\ c \in Keys(connections')
                  /\ RecordOf(connections', c) = RecordOf(connections, c)
                  /\ delivered'[RecordOf(connections, c).websocket]
                       = delivered[RecordOf(connections, c).websocket]
            /\ \A r \in DOMAIN room_connections :
                   c \in room_connections[r]
                   => (r \in DOMAIN room_connections' /\ c \in room_connections'[r])]_vars

\* a broadcast has passed over an excluded client whose socket is closed,
\* after a send to another client failed
C36_Witness ==
    /\ bc.pc = "iter"
    /\ bc.kind = "all"
    /\ bc.disconnected_clients # <<>>
    /\ \E c \in bc.exclude :
         /\ c \in Keys(connections)
         /\ IndexOf(connections, c) <= bc.pos
         /\ sockets[RecordOf(connections, c).websocket] = "closed"
         /\ delivered[RecordOf(connections, c).websocket] = <<>>

\* the message stored in the history as event e, as it was built
StampOf(e) == stamps[CHOOSE k \in 1..Len(stamps) : stamps[k].event = e]

\* C39: a message built without an explicit timestamp carries the clock
\* value of the moment it was built, so that in the history messages built
\* at different times have different timestamps, none earlier than the one
\* before it
C39_TimestampIsConstructionTime ==
    /\ \A k \in 1..Len(stamps) : stamps[k].timestamp = stamps[k].constructed
    /\ \A i, j \in 1..Len(message_history) :
         i < j => LET a == StampOf(message_history[i])
                      b == StampOf(message_history[j])
                  IN /\ a.timestamp <= b.timestamp
                     /\ a.constructed # b.constructed => a.timestamp # b.timestamp

(***************************************************************************)
(* Transport engine: properties                                            *)
(***************************************************************************)

\* C3: play() is idempotent when the engine is already Playing: a play()
\* issued while is_playing is true starts no further tick loop, so the set
\* of live tick-loop tasks is the same after the call as before it.
C3_PlayIdempotentWhenPlaying ==
    [][(play /\ is_playing) => LiveLoops' = LiveLoops]_vars

\* C4: at most one tick loop is alive at any time; in particular a play()
\* issued from Stopped/Paused (is_playing false), while an earlier loop may
\* still be suspended in its sleep, leaves at most one live tick loop.
C4_PlayAfterPauseLeavesOneLoop ==
    [][(play /\ ~is_playing) => Cardinality(LiveLoops') <= 1]_vars

\* C5: stop() can be taken in every state in which the event loop can run a
\* command, whatever the transport state; after it is_playing is false and
\* the playhead is {0,0,0}; and while the engine is not playing a zero
\* playhead stays zero (until the next play()).
C5_StopResetsPlayhead ==
    /\ [](NoTaskRunning => ENABLED stop)
    /\ [][/\ stop => (~is_playing' /\ Playhead' = TimelinePosition)
          /\ (~is_playing /\ Playhead = TimelinePosition)
                => Playhead' = TimelinePosition]_vars

\* C5 witness: stop() has acted on a playing, recording engine whose playhead
\* had advanced (the status taken before still refers to the old position
\* object), and the engine is now stopped at zero.
C5_Witness ==
    /\ last_status # None
    /\ last_status.is_playing
    /\ last_status.is_recording
    /\ last_status.playhead_position # playhead_position
    /\ positions[last_status.playhead_position] # TimelinePosition
    /\ ~is_playing
    /\ Playhead = TimelinePosition

\* C6: pause() clears is_playing and leaves the playhead where it is, and
\* while is_playing is false (no play() has followed) no step other than a
\* stop() changes the playhead: no later tick cycle advances it.
C6_PauseHoldsPlayhead ==
    [][/\ pause => (~is_playing' /\ Playhead' = Playhead)
       /\ (~is_playing /\ ~stop) => Playhead' = Playhead]_vars

\* C6 witness: the engine was paused with the playhead advanced, and every
\* tick loop has since observed the flag and ended.
C6_Witness ==
    /\ is_initialized
    /\ ~is_playing
    /\ Playhead # TimelinePosition
    /\ LiveLoops = {}

\* C7: a status returned by get_status() is a snapshot: as long as it is the
\* status last returned, the bar/beat/tick of its playhead_position do not
\* change, whatever the engine does.
C7_StatusIsSnapshot ==
    [][(last_status # None /\ last_status' = last_status)
         => positions'[last_status.playhead_position]
              = positions[last_status.playhead_position]]_vars

\* beats per bar of the current project ((4, 4) is Project's default)
beats_per_bar == IF current_project = None THEN 4 ELSE current_project.time_signature

Normalized(p) ==
    /\ 0 <= p.tick /\ p.tick < TicksPerBeat
    /\ 0 <= p.beat /\ p.beat < beats_per_bar
    /\ p.bar >= 0

\* C19: the playhead is always normalized, in every state and in every
\* status at the moment it is returned, also after set_project changed the
\* time signature: 0 <= tick < 480, 0 <= beat < beats per bar, bar >= 0.
C19_PlayheadNormalized ==
    /\ [](Normalized(Playhead))
    /\ [][get_status => Normalized(positions'[last_status'.playhead_position])]_vars

\* C20: advancing the playhead always terminates: with a project whose tempo
\* or beats per bar is not positive the advance is rejected, the position is
\* left as it was and the tick loop does not spin in the carry step.
C20_InvalidProjectRejected ==
    [][\A i \in LoopIds, pt \in ProcessingPercents :
         (/\ audio_processing_loop(i, pt)
          /\ is_playing
          /\ current_project # None
          /\ (current_project.tempo <= 0 \/ current_project.time_signature <= 0))
         => /\ positions' = positions
            /\ loop_tasks'[i] # "hung"]_vars

(* C21: while playing, buffer_underruns never decreases; a completed cycle *)
(* adds one exactly when its processing time is strictly greater than the  *)
(* buffer duration (more than 100 percent of it) and adds nothing          *)
(* otherwise; the cycle sleeps exactly when it did not underrun.           *)
C21_UnderrunsCountLateCycles ==
    /\ [][is_playing => buffer_underruns' >= buffer_underruns]_vars
    /\ [][\A i \in LoopIds, pt \in MetricsPercents :
            (audio_processing_loop(i, pt) /\ is_playing
                                          /\ loop_tasks'[i] # "hung")
            => /\ buffer_underruns' =
                      buffer_underruns + (IF pt > 100 THEN 1 ELSE 0)
               /\ (loop_tasks'[i] = "sleeping") <=> ~(pt > 100)]_vars

(* C22: a tick cycle run while the project's time signature is malformed   *)
(* (beats per bar not positive) fails alone: the loop task is still alive  *)
(* and back in the event loop afterwards, and the cycle leaves cpu_usage   *)
(* and buffer_underruns as they were.                                      *)
C22_BadProjectFailsOneCycle ==
    [][\A i \in LoopIds, pt \in ProcessingPercents :
          (audio_processing_loop(i, pt) /\ is_playing
               /\ current_project # None
               /\ current_project.time_signature <= 0)
          => /\ loop_tasks'[i] \in {"sleeping", "running"}
             /\ UNCHANGED <<cpu_usage, buffer_underruns>>]_vars

(* C23: seek with a negative position is rejected as an invalid parameter  *)
(* and leaves everything get_status() reports as it was; seek with a       *)
(* non-negative position is accepted, and seek(0) puts the playhead at the *)
(* zero position.                                                          *)
C23_SeekValidatesPosition ==
    [][\A position \in SeekPositions :
          seek(position)
          => IF position < 0
             THEN seek_response' = "invalid_parameter" /\ UNCHANGED engineVars
             ELSE /\ seek_response' = "success"
                  /\ position = 0 => Playhead' = TimelinePosition]_vars

C25_ThreeCyclesAdvance ==
    cycles = 3
    => /\ Playhead = [bar |-> 0, beat |-> 0, tick |-> 33]
       /\ Playhead.tick < TicksPerBeat
       /\ last_status # None
          => positions[last_status.playhead_position] = Playhead

\* C25 witness: three cycles have completed and get_status() was called
\* after them, while the engine still plays.
C25_Witness ==
    /\ cycles = 3
    /\ is_playing
    /\ current_project # None /\ current_project.tempo = 120
    /\ last_status # None
    /\ positions[last_status.playhead_position].tick = 33

(* C26: with tempo > 0 and beats per bar > 0, the playhead advanced from   *)
(* zero by the elapsed buffer durations converts back to the elapsed time: *)
(* to_samples of it is the number of samples that elapsed (to within one   *)
(* sample, the truncation of the conversion itself).                       *)
C26_AdvanceRoundTrips ==
    (current_project # None /\ current_project.tempo > 0
                            /\ current_project.time_signature > 0)
    => LET back == to_samples(Playhead, sample_rate, current_project.tempo,
                              current_project.time_signature)
       IN  (cycles * buffer_size - back) \in -1 .. 1

\* the transport part of what get_status() reports (the engine keeps no
\* is_paused flag: is_playing is all that play(), pause() and stop() set)
TransportStateOf ==
    [is_playing |-> is_playing, is_recording |-> is_recording,
     playhead_position |-> Playhead]

\* the transport state stop() leaves
StoppedState(recording) ==
    [is_playing |-> FALSE, is_recording |-> recording,
     playhead_position |-> TimelinePosition]

(* C29: Paused can be told from Stopped in the transport state: the state  *)
(* that pause() leaves when it interrupts playback is not the state that   *)
(* stop() leaves.                                                          *)
C29_PausedDiffersFromStopped ==
    [][(pause /\ is_playing)
       => TransportStateOf' # StoppedState(is_recording')]_vars

(* C30: once pause() or stop() has cleared is_playing while tick loops are *)
(* alive, then unless play() is called again every one of them comes to    *)
(* the top of its cycle, sees the flag and ends: eventually no tick loop   *)
(* is left.                                                                *)
C30_LoopsEventuallyExit ==
    (~is_playing /\ LiveLoops # {}) ~> (is_playing \/ LiveLoops = {})

\* C30 witness: playback was interrupted while a tick loop was asleep
C30_Witness ==
    /\ is_initialized
    /\ ~is_playing
    /\ \E i \in LoopIds : loop_tasks[i] = "sleeping"

(* C31: the tick loop gives the other tasks their turn: every cycle that   *)
(* completes while playing, also one that overruns its budget, leaves the  *)
(* loop task suspended, so that a pending pause(), stop() or socket task   *)
(* can run before the next cycle.                                          *)
C31_EveryCycleYields ==
    [][\A i \in LoopIds, pt \in MetricsPercents :
          (audio_processing_loop(i, pt) /\ is_playing
                                        /\ loop_tasks'[i] # "hung")
          => (loop_tasks'[i] = "sleeping" /\ NoTaskRunning')]_vars

(* C37: play() on an engine that is not initialized raises and changes     *)
(* nothing: is_playing stays false and no tick loop task is created; and   *)
(* shutdown() leaves is_playing false, so that an engine that is not       *)
(* initialized never plays.                                                *)
C37_PlayNeedsInitialize ==
    /\ [][play_not_initialized
          => /\ play_result' = "RuntimeError"
             /\ ~is_playing'
             /\ loop_tasks' = loop_tasks
             /\ UNCHANGED engineVars]_vars
    /\ [][shutdown => (~is_playing' /\ ~is_initialized')]_vars
    /\ [](~is_initialized => ~is_playing)

\* C37 witness: play() has raised on an engine that was shut down during
\* playback, with the tick loop of that playback still alive
C37_Witness ==
    /\ play_result = "RuntimeError"
    /\ ~is_initialized
    /\ ~is_playing
    /\ \E i \in LoopIds : loop_tasks[i] \in {"created", "sleeping"}

\* a position counted in ticks, with beats beats in a bar
TicksOf(p, beats) == (p.bar * beats + p.beat) * TicksPerBeat + p.tick

(* C38: no musical time is lost to the rounding of each cycle: after k     *)
(* completed tick cycles at a fixed tempo the playhead is where one        *)
(* advance by k buffer durations leads: its tick count is the whole part   *)
(* of k * buffer_size / sample_rate * tempo / 60 * 480.                    *)
C38_NoTimeLostToRounding ==
    current_project # None
    => TicksOf(Playhead, current_project.time_signature)
         = (cycles * buffer_size * current_project.tempo * TicksPerBeat)
             \div (sample_rate * 60)

====
